---- MODULE Spec2Model ----
(***************************************************************************)
(* Model of api/bot.js: the gold-price analysis bot.                       *)
(*                                                                         *)
(* Numbers.  The program computes on IEEE doubles; the model computes on   *)
(* integers and exact rationals [num, den] (den > 0), and compares them by *)
(* cross-multiplication.  The volatility bands are sma +/- m*sqrt(var): the*)
(* record keeps middle, variance and multiplier, and a price is compared   *)
(* with a band by comparing squares, which is exact.  The EMA recurrence   *)
(* is computed in fixed point with EmaScale units per price unit.          *)
(*                                                                         *)
(* Absent values.  JavaScript's null and undefined (a property missing     *)
(* from {}) are both modelled by NULL; every optional value is a record so *)
(* that it can be compared with NULL.                                      *)
(***************************************************************************)
EXTENDS Integers, Sequences, FiniteSets, TLC

VARIABLES marketDataCache, pc, cmd, formattedData, analysis, microtasks,
          lastRun, fetches, pdata, pperiod, pout

vars == <<marketDataCache, pc, cmd, formattedData, analysis, microtasks,
          lastRun, fetches, pdata, pperiod, pout>>

handlerVars == <<pc, cmd, formattedData, analysis, microtasks, lastRun, fetches>>

pureVars == <<pdata, pperiod, pout>>

\* ------------------------------------------------------------------------
\* Values

NULL == [null |-> TRUE]

Rat(n, d) == [num |-> n, den |-> d]

\* a < b for rationals with positive denominators
RLess(a, b) == a.num * b.den < b.num * a.den

\* a number used as a condition: null, undefined and 0 are falsy
Falsy(x) == x = NULL \/ x.num = 0

Abs(x) == IF x < 0 THEN -x ELSE x

\* array.slice(-k): the last k elements (all of them when k = 0 or k > length)
SliceLast(data, k) ==
    IF k = 0 \/ k >= Len(data) THEN data
    ELSE SubSeq(data, Len(data) - k + 1, Len(data))

\* array.slice(0, k)
SliceFirst(data, k) ==
    IF k >= Len(data) THEN data ELSE SubSeq(data, 1, k)

\* reduce((sum, item) => sum + item.close, 0) over data[lo..hi], summed by halves
RECURSIVE SumCloseRange(_, _, _)
SumCloseRange(data, lo, hi) ==
    IF lo > hi THEN 0
    ELSE IF lo = hi THEN data[lo].close
    ELSE SumCloseRange(data, lo, (lo + hi) \div 2)
         + SumCloseRange(data, (lo + hi) \div 2 + 1, hi)

SumClose(data) == SumCloseRange(data, 1, Len(data))

\* ------------------------------------------------------------------------
\* TechnicalAnalysis

calculateSMANonEmpty(data, period) ==
    IF Len(data) = 0 THEN NULL
    ELSE Rat(SumClose(SliceLast(data, period)), period)

calculateSMA(data, period) ==
    IF Len(data) < period THEN NULL
    ELSE Rat(SumClose(SliceLast(data, period)), period)

EmaScale == 1000

\* ema = close*m + ema*(1-m) with m = 2/(period+1), for the 0-based indices i .. j-1
RECURSIVE EmaSteps(_, _, _, _, _)
EmaSteps(data, i, j, ema, period) ==
    IF i >= j THEN ema
    ELSE EmaSteps(data, i + 1, j,
                  (2 * data[i + 1].close * EmaScale + (period - 1) * ema) \div (period + 1),
                  period)

\* for (i = period; i < data.length; i++) ...: the iterations are evaluated ten at a
\* time, each block's result before the next block, to bound the evaluation depth
RECURSIVE EmaLoop(_, _, _, _)
EmaLoop(data, i, ema, period) ==
    IF i >= Len(data) THEN ema
    ELSE LET j == IF i + 10 < Len(data) THEN i + 10 ELSE Len(data)
             next == EmaSteps(data, i, j, ema, period)
         IN  IF next = next THEN EmaLoop(data, j, next, period) ELSE next

calculateEMA(data, period) ==
    IF Len(data) < period THEN NULL
    ELSE Rat(EmaLoop(data, period,
                     (SumClose(SliceFirst(data, period)) * EmaScale) \div period,
                     period),
             EmaScale)

\* the loop of calculateRSI: i = 1..period, change = data[length-i] - data[length-i-1]
\* (0-based); a change of 0 is added to the losses
RECURSIVE RsiLoop(_, _, _, _, _)
RsiLoop(data, i, period, gains, losses) ==
    IF i > period THEN [gains |-> gains, losses |-> losses]
    ELSE LET change == data[Len(data) - i + 1].close - data[Len(data) - i].close
         IN  IF change > 0
             THEN RsiLoop(data, i + 1, period, gains + change, losses)
             ELSE RsiLoop(data, i + 1, period, gains, losses + Abs(change))

\* 100 - 100/(1 + (gains/period)/(losses/period)) = 100*gains/(gains+losses)
calculateRSI(data, period) ==
    IF Len(data) < period + 1 THEN NULL
    ELSE LET gl == RsiLoop(data, 1, period, 0, 0)
         IN  IF gl.losses = 0 THEN Rat(100, 1)
             ELSE Rat(100 * gl.gains, gl.gains + gl.losses)

\* reduce((sum, item) => sum + (item.close - sma)^2, 0) over data[lo..hi], scaled by
\* period^2: the sum of (period*close - S)^2 where sma = S/period, summed by halves
RECURSIVE SumSqDevRange(_, _, _, _, _)
SumSqDevRange(data, lo, hi, S, period) ==
    IF lo > hi THEN 0
    ELSE IF lo = hi
    THEN (period * data[lo].close - S) * (period * data[lo].close - S)
    ELSE SumSqDevRange(data, lo, (lo + hi) \div 2, S, period)
         + SumSqDevRange(data, (lo + hi) \div 2 + 1, hi, S, period)

SumSqDev(data, S, period) == SumSqDevRange(data, 1, Len(data), S, period)

\* upper = middle + multiplier*sqrt(variance), lower = middle - multiplier*sqrt(variance),
\* width = multiplier*sqrt(variance)*2/middle*100 are determined by the three fields
calculateBollingerBands(data, period, multiplier) ==
    IF Len(data) < period THEN NULL
    ELSE LET sma == calculateSMA(data, period)
         IN  IF Falsy(sma) THEN NULL
             ELSE [middle |-> sma,
                   variance |-> Rat(SumSqDev(SliceLast(data, period), sma.num, period),
                                    period * period * period),
                   multiplier |-> multiplier]

\* price < b.lower, i.e. middle - price > multiplier*sqrt(variance)
BelowLower(price, b) ==
    LET d == b.middle.num - b.middle.den * price
    IN  d > 0 /\ d * d * b.middle.den > b.multiplier * b.multiplier * b.variance.num

\* price > b.upper, i.e. price - middle > multiplier*sqrt(variance)
AboveUpper(price, b) ==
    LET d == b.middle.den * price - b.middle.num
    IN  d > 0 /\ d * d * b.middle.den > b.multiplier * b.multiplier * b.variance.num

\* ------------------------------------------------------------------------
\* PatternRecognition

\* the loop over the interior candles, i = 1 .. length-2 (0-based)
Interior(data) ==
    IF Len(data) < 3 THEN <<>> ELSE [k \in 1..(Len(data) - 2) |-> k + 1]

LocalHighs(data) ==
    LET idx == SelectSeq(Interior(data),
                         LAMBDA i : data[i].high > data[i - 1].high
                                    /\ data[i].high > data[i + 1].high)
    IN  [k \in 1..Len(idx) |-> [index |-> idx[k] - 1, price |-> data[idx[k]].high]]

LocalLows(data) ==
    LET idx == SelectSeq(Interior(data),
                         LAMBDA i : data[i].low < data[i - 1].low
                                    /\ data[i].low < data[i + 1].low)
    IN  [k \in 1..Len(idx) |-> [index |-> idx[k] - 1, price |-> data[idx[k]].low]]

RatioBelowTenth(priceDiff, avgPrice) ==
    IF avgPrice.num > 0 THEN 10 * priceDiff * avgPrice.den < avgPrice.num
    ELSE avgPrice.num < 0

\* priceDiff / avgPrice < 0.01 with priceDiff >= 0; x/0 is Infinity or NaN, never < 0.01
RatioBelowHundredth(priceDiff, avgPrice) ==
    IF avgPrice.num > 0 THEN 100 * priceDiff * avgPrice.den < avgPrice.num
    ELSE avgPrice.num < 0

DoubleTop(highs) ==
    IF Len(highs) >= 2
    THEN LET lastTwo == SliceLast(highs, 2)
             priceDiff == Abs(lastTwo[1].price - lastTwo[2].price)
             avgPrice == Rat(lastTwo[1].price + lastTwo[2].price, 2)
         IN  IF RatioBelowHundredth(priceDiff, avgPrice)
             THEN << [type |-> "DOUBLE_TOP", confidence |-> 75,
                      description |-> "Potential reversal - Consider SELL",
                      resistance |-> avgPrice] >>
             ELSE <<>>
    ELSE <<>>

DoubleBottom(lows) ==
    IF Len(lows) >= 2
    THEN LET lastTwo == SliceLast(lows, 2)
             priceDiff == Abs(lastTwo[1].price - lastTwo[2].price)
             avgPrice == Rat(lastTwo[1].price + lastTwo[2].price, 2)
         IN  IF RatioBelowHundredth(priceDiff, avgPrice)
             THEN << [type |-> "DOUBLE_BOTTOM", confidence |-> 75,
                      description |-> "Potential reversal - Consider BUY",
                      support |-> avgPrice] >>
             ELSE <<>>
    ELSE <<>>

detectDoubleTopBottom(data) ==
    DoubleTop(LocalHighs(data)) \o DoubleBottom(LocalLows(data))

detectPatterns(data) ==
    IF Len(data) < 20 THEN <<>> ELSE detectDoubleTopBottom(SliceLast(data, 20))

\* ------------------------------------------------------------------------
\* marketDataCache and fetchGoldData

NoIndicators ==
    [sma20 |-> NULL, sma50 |-> NULL, ema12 |-> NULL, rsi |-> NULL, bollinger |-> NULL]

InitCache ==
    [prices |-> <<>>, indicators |-> NoIndicators, patterns |-> <<>>,
     lastUpdate |-> NULL, source |-> NULL]

\* timestamps.map(...).filter(candle => candle.close !== null); time, open and
\* volume are carried along and never read
FormatData(raw) ==
    LET kept == SelectSeq(raw, LAMBDA q : q.close # NULL)
    IN  [i \in 1..Len(kept) |->
            [close |-> kept[i].close.val, high |-> kept[i].high, low |-> kept[i].low]]

Indicators(data) ==
    [sma20 |-> calculateSMA(data, 20),
     sma50 |-> calculateSMA(data, 50),
     ema12 |-> calculateEMA(data, 12),
     rsi |-> calculateRSI(data, 14),
     bollinger |-> calculateBollingerBands(data, 20, 2)]

\* the statements of fetchGoldData after the response was formatted
CacheAfterFetch(cache, formatted) ==
    LET data == SliceLast(formatted, 100)
    IN  [prices |-> data,
         indicators |-> IF Len(data) >= 20 THEN Indicators(data) ELSE cache.indicators,
         patterns |-> IF Len(data) >= 20 THEN detectPatterns(data) ELSE cache.patterns,
         lastUpdate |-> [time |-> "now"],
         source |-> [name |-> "Yahoo Finance"]]

\* ------------------------------------------------------------------------
\* generateSignal

\* signal.includes(word) for the five labels
Includes(signal, word) ==
    CASE word = "BUY" -> signal \in {"BUY", "STRONG_BUY"}
      [] word = "SELL" -> signal \in {"SELL", "STRONG_SELL"}
      [] OTHER -> FALSE

\* rsi.toFixed(1): the value in tenths, rounded to nearest
ToFixed1(x) == [tenths |-> (20 * x.num + x.den) \div (2 * x.den)]

Reason(text, value) == [text |-> text, value |-> value]

RsiAnalysisSigned(rsi) ==
    IF RLess(rsi, Rat(25, 1))
    THEN [signal |-> "STRONG_BUY", confidence |-> 40,
          reasons |-> << Reason("RSI oversold", ToFixed1(rsi)) >>]
    ELSE IF RLess(rsi, Rat(35, 1))
    THEN [signal |-> "BUY", confidence |-> 25,
          reasons |-> << Reason("RSI low", ToFixed1(rsi)) >>]
    ELSE IF RLess(Rat(75, 1), rsi)
    THEN [signal |-> "STRONG_SELL", confidence |-> 0 - 40,
          reasons |-> << Reason("RSI overbought", ToFixed1(rsi)) >>]
    ELSE IF RLess(Rat(65, 1), rsi)
    THEN [signal |-> "SELL", confidence |-> 0 - 25,
          reasons |-> << Reason("RSI high", ToFixed1(rsi)) >>]
    ELSE [signal |-> "HOLD", confidence |-> 0, reasons |-> <<>>]

RsiAnalysis(rsi) ==
    IF RLess(rsi, Rat(25, 1))
    THEN [signal |-> "STRONG_BUY", confidence |-> 40,
          reasons |-> << Reason("RSI oversold", ToFixed1(rsi)) >>]
    ELSE IF RLess(rsi, Rat(35, 1))
    THEN [signal |-> "BUY", confidence |-> 25,
          reasons |-> << Reason("RSI low", ToFixed1(rsi)) >>]
    ELSE IF RLess(Rat(75, 1), rsi)
    THEN [signal |-> "STRONG_SELL", confidence |-> 40,
          reasons |-> << Reason("RSI overbought", ToFixed1(rsi)) >>]
    ELSE IF RLess(Rat(65, 1), rsi)
    THEN [signal |-> "SELL", confidence |-> 25,
          reasons |-> << Reason("RSI high", ToFixed1(rsi)) >>]
    ELSE [signal |-> "HOLD", confidence |-> 0, reasons |-> <<>>]

MovingAverageAnalysisRelabel(acc, currentPrice, sma20, sma50) ==
    IF Falsy(sma20) \/ Falsy(sma50) THEN acc
    ELSE IF RLess(sma20, Rat(currentPrice, 1)) /\ RLess(sma50, sma20)
    THEN [signal |-> "BUY", confidence |-> acc.confidence + 15,
          reasons |-> Append(acc.reasons, Reason("Bullish MA trend", NULL))]
    ELSE IF RLess(Rat(currentPrice, 1), sma20) /\ RLess(sma20, sma50)
    THEN [signal |-> "SELL", confidence |-> acc.confidence + 15,
          reasons |-> Append(acc.reasons, Reason("Bearish MA trend", NULL))]
    ELSE acc

MovingAverageAnalysis(acc, currentPrice, sma20, sma50) ==
    IF Falsy(sma20) \/ Falsy(sma50) THEN acc
    ELSE IF RLess(sma20, Rat(currentPrice, 1)) /\ RLess(sma50, sma20)
            /\ Includes(acc.signal, "BUY")
    THEN [acc EXCEPT !.confidence = @ + 15,
                     !.reasons = Append(@, Reason("Bullish MA trend", NULL))]
    ELSE IF RLess(Rat(currentPrice, 1), sma20) /\ RLess(sma20, sma50)
            /\ Includes(acc.signal, "SELL")
    THEN [acc EXCEPT !.confidence = @ + 15,
                     !.reasons = Append(@, Reason("Bearish MA trend", NULL))]
    ELSE acc

BollingerAnalysisInside(acc, currentPrice, bollinger) ==
    IF bollinger = NULL THEN acc
    ELSE IF ~AboveUpper(currentPrice, bollinger) /\ Includes(acc.signal, "BUY")
    THEN [acc EXCEPT !.confidence = @ + 15,
                     !.reasons = Append(@, Reason("Below lower Bollinger", NULL))]
    ELSE IF ~BelowLower(currentPrice, bollinger) /\ Includes(acc.signal, "SELL")
    THEN [acc EXCEPT !.confidence = @ + 15,
                     !.reasons = Append(@, Reason("Above upper Bollinger", NULL))]
    ELSE acc

BollingerAnalysis(acc, currentPrice, bollinger) ==
    IF bollinger = NULL THEN acc
    ELSE IF BelowLower(currentPrice, bollinger) /\ Includes(acc.signal, "BUY")
    THEN [acc EXCEPT !.confidence = @ + 15,
                     !.reasons = Append(@, Reason("Below lower Bollinger", NULL))]
    ELSE IF AboveUpper(currentPrice, bollinger) /\ Includes(acc.signal, "SELL")
    THEN [acc EXCEPT !.confidence = @ + 15,
                     !.reasons = Append(@, Reason("Above upper Bollinger", NULL))]
    ELSE acc

Min(a, b) == IF a < b THEN a ELSE b

generateSignal(cache) ==
    IF Falsy(cache.indicators.rsi) \/ Len(cache.prices) = 0
    THEN [signal |-> "NO_DATA", confidence |-> 0]
    ELSE LET ind == cache.indicators
             currentPrice == cache.prices[Len(cache.prices)].close
             acc == BollingerAnalysis(
                        MovingAverageAnalysis(RsiAnalysis(ind.rsi),
                                              currentPrice, ind.sma20, ind.sma50),
                        currentPrice, ind.bollinger)
         IN  [signal |-> acc.signal,
              confidence |-> Min(acc.confidence, 95),
              reasons |-> acc.reasons,
              price |-> currentPrice,
              indicators |-> ind,
              patterns |-> SliceFirst(cache.patterns, 3)]

\* patterns.splice(0, 3) in place of patterns.slice(0, 3) would empty the cached list
CacheAfterSplice(cache) == [cache EXCEPT !.patterns = <<>>]

\* what generateSignal writes to marketDataCache: nothing
CacheAfterSignal(cache) == cache

\* ------------------------------------------------------------------------
\* Inputs: the responses of the price feed

Rep(v, k) == [i \in 1..k |-> v]

Ramp(a, step, k) == [i \in 1..k |-> a + step * (i - 1)]

\* a, a+up, a+up-down, a+2up-down, ...
Zig(a, up, down, k) ==
    [i \in 1..k |-> a + ((i - 1) \div 2) * (up - down) + (IF i % 2 = 0 THEN up ELSE 0)]

Quote(c) == [close |-> [val |-> c], high |-> c + 1, low |-> c - 1]

NullQuote(c) == [close |-> NULL, high |-> c + 1, low |-> c - 1]

Quotes(closes) == [i \in 1..Len(closes) |-> Quote(closes[i])]

CloseSeries ==
    { Rep(1000, 5),
      Zig(1000, 1, 1, 15),
      Ramp(1019, 0 - 1, 20),
      Ramp(1000, 1, 50),
      Rep(1000, 48) \o <<1001, 991>>,
      Rep(1000, 18) \o <<999, 1009>>,
      Rep(990, 35) \o <<1060, 1061>> \o Ramp(1060, 0 - 1, 13),
      Rep(1060, 35) \o <<990, 989>> \o Ramp(990, 1, 13),
      Zig(1030, 1, 2, 21),
      Zig(1000, 2, 1, 21),
      Zig(1000, 1, 1, 101) }

RawSeries ==
    { Quotes(c) : c \in CloseSeries }
    \cup { Quotes(Rep(1000, 3)) \o << NullQuote(1000) >> \o Quotes(Rep(1000, 2)) }

\* the request succeeds with a well-formed chart, or it is rejected, times out or
\* carries a body the statements before the cache update throw on
Responses ==
    { [ok |-> TRUE, quotes |-> q] : q \in RawSeries } \cup { [ok |-> FALSE, quotes |-> <<>>] }

\* ------------------------------------------------------------------------
\* handler: one invocation per request, interleaved at its awaits

Requests == {"r1", "r2"}

MaxRequests == 2

FetchCommands == {"/price", "/analysis", "/signal"}

Commands == FetchCommands \cup {"/start"}

NoData == [ok |-> FALSE, data |-> <<>>]

Init ==
    /\ marketDataCache = InitCache
    /\ pc = [r \in Requests |-> "idle"]
    /\ cmd = [r \in Requests |-> "none"]
    /\ formattedData = [r \in Requests |-> NoData]
    /\ analysis = [r \in Requests |-> NULL]
    /\ microtasks = <<>>
    /\ lastRun = "none"
    /\ fetches = 0
    /\ pdata = <<>>
    /\ pperiod = 0
    /\ pout = [fn |-> "none"]

\* POST with body.message.text = text: the synchronous part up to the first await
Receive(r, text) ==
    /\ pc[r] = "idle"
    /\ microtasks = <<>>
    /\ fetches < MaxRequests
    /\ fetches' = fetches + 1
    /\ cmd' = [cmd EXCEPT ![r] = text]
    /\ pc' = [pc EXCEPT ![r] = IF text \in FetchCommands THEN "awaitAxios" ELSE "sending"]
    /\ UNCHANGED <<marketDataCache, formattedData, analysis, microtasks, lastRun>>
    /\ UNCHANGED pureVars

\* the promise of axios.get settles: the rest of fetchGoldData becomes a microtask
AxiosSettles(r) ==
    /\ pc[r] = "awaitAxios"
    /\ microtasks = <<>>
    /\ pc' = [pc EXCEPT ![r] = "fetchCont"]
    /\ microtasks' = Append(microtasks, r)
    /\ UNCHANGED <<marketDataCache, cmd, formattedData, analysis, lastRun, fetches>>
    /\ UNCHANGED pureVars

\* fetchGoldData after the await, up to its return
FetchContinuation(r, resp) ==
    /\ microtasks # <<>>
    /\ Head(microtasks) = r
    /\ pc[r] = "fetchCont"
    /\ IF resp.ok
       THEN /\ marketDataCache' = CacheAfterFetch(marketDataCache, FormatData(resp.quotes))
            /\ formattedData' = [formattedData EXCEPT
                                    ![r] = [ok |-> TRUE, data |-> FormatData(resp.quotes)]]
            /\ lastRun' = "true"
       ELSE /\ lastRun' = "false"
            /\ UNCHANGED <<marketDataCache, formattedData>>
    /\ pc' = [pc EXCEPT ![r] = "handlerCont"]
    /\ microtasks' = Append(Tail(microtasks), r)
    /\ UNCHANGED <<cmd, analysis, fetches>>
    /\ UNCHANGED pureVars

\* the handler after "await fetchGoldData()": /price reads the cache, /analysis and
\* /signal call generateSignal; then the message is handed to bot.sendMessage
HandlerContinuation(r) ==
    /\ microtasks # <<>>
    /\ Head(microtasks) = r
    /\ pc[r] = "handlerCont"
    /\ IF cmd[r] = "/price"
       THEN UNCHANGED <<marketDataCache, analysis>>
       ELSE /\ analysis' = [analysis EXCEPT ![r] = generateSignal(marketDataCache)]
            /\ marketDataCache' = CacheAfterSignal(marketDataCache)
    /\ pc' = [pc EXCEPT ![r] = "sending"]
    /\ microtasks' = Tail(microtasks)
    /\ UNCHANGED <<cmd, formattedData, lastRun, fetches>>
    /\ UNCHANGED pureVars

\* bot.sendMessage settles and the handler answers: the invocation and its locals end
SendSettles(r) ==
    /\ pc[r] = "sending"
    /\ microtasks = <<>>
    /\ pc' = [pc EXCEPT ![r] = "idle"]
    /\ cmd' = [cmd EXCEPT ![r] = "none"]
    /\ formattedData' = [formattedData EXCEPT ![r] = NoData]
    /\ analysis' = [analysis EXCEPT ![r] = NULL]
    /\ UNCHANGED <<marketDataCache, microtasks, lastRun, fetches>>
    /\ UNCHANGED pureVars

Next ==
    \/ \E r \in Requests, text \in Commands : Receive(r, text)
    \/ \E r \in Requests : AxiosSettles(r)
    \/ \E r \in Requests, resp \in Responses : FetchContinuation(r, resp)
    \/ \E r \in Requests : HandlerContinuation(r)
    \/ \E r \in Requests : SendSettles(r)

Spec == Init /\ [][Next]_vars

\* ------------------------------------------------------------------------
\* The analysis functions applied to supplied inputs

Periods == {1, 12, 14, 20, 50}

PrefixLens == {0, 1, 2, 11, 12, 13, 14, 15, 16, 19, 20, 21, 22, 49, 50, 51}

SeriesData ==
    { SliceFirst(FormatData(q), k) : q \in RawSeries, k \in PrefixLens }

HighLevels == {990, 995, 1005, 1030}

LowLevels == {910, 905, 870}

\* 22 candles closing at 950 with highs of 990 and lows of 910, except a high of 1100
\* at candle 2 (before the 20-candle window), highs h[1], h[2], h[3] at candles 6, 11,
\* 16 and lows l[1], l[2], l[3] at candles 8, 13, 18
PeakData(h, l) ==
    [i \in 1..22 |->
        [close |-> 950,
         high |-> CASE i = 2 -> 1100 [] i = 6 -> h[1] [] i = 11 -> h[2]
                    [] i = 16 -> h[3] [] OTHER -> 990,
         low |-> CASE i = 8 -> l[1] [] i = 13 -> l[2] [] i = 18 -> l[3]
                   [] OTHER -> 910]]

PatternData ==
    { PeakData(h, l) : h \in [1..3 -> HighLevels], l \in [1..3 -> LowLevels] }

\* the caches one or two successful fetches leave
FetchedCaches ==
    LET once == { CacheAfterFetch(InitCache, FormatData(q)) : q \in RawSeries }
    IN  once \cup { CacheAfterFetch(c, FormatData(q)) : c \in once, q \in RawSeries }

InitPure ==
    /\ pc = [r \in Requests |-> "idle"]
    /\ cmd = [r \in Requests |-> "none"]
    /\ formattedData = [r \in Requests |-> NoData]
    /\ analysis = [r \in Requests |-> NULL]
    /\ microtasks = <<>>
    /\ lastRun = "none"
    /\ fetches = 0
    /\ pout = [fn |-> "none"]
    /\ \/ marketDataCache = InitCache /\ pdata \in SeriesData /\ pperiod \in Periods
       \/ marketDataCache = InitCache /\ pdata \in PatternData /\ pperiod = 20
       \/ marketDataCache \in FetchedCaches /\ pdata = <<>> /\ pperiod = 1

ApplySMA ==
    /\ pout.fn = "none"
    /\ pout' = [fn |-> "calculateSMA", value |-> calculateSMA(pdata, pperiod)]
    /\ UNCHANGED <<marketDataCache, pdata, pperiod>>
    /\ UNCHANGED handlerVars

ApplyEMA ==
    /\ pout.fn = "none"
    /\ pout' = [fn |-> "calculateEMA", value |-> calculateEMA(pdata, pperiod)]
    /\ UNCHANGED <<marketDataCache, pdata, pperiod>>
    /\ UNCHANGED handlerVars

ApplyRSI ==
    /\ pout.fn = "none"
    /\ pout' = [fn |-> "calculateRSI", value |-> calculateRSI(pdata, pperiod)]
    /\ UNCHANGED <<marketDataCache, pdata, pperiod>>
    /\ UNCHANGED handlerVars

ApplyBollingerBands ==
    /\ pout.fn = "none"
    /\ pout' = [fn |-> "calculateBollingerBands",
                value |-> calculateBollingerBands(pdata, pperiod, 2)]
    /\ UNCHANGED <<marketDataCache, pdata, pperiod>>
    /\ UNCHANGED handlerVars

ApplyDetectPatterns ==
    /\ pout.fn = "none"
    /\ pout' = [fn |-> "detectPatterns", value |-> detectPatterns(pdata)]
    /\ UNCHANGED <<marketDataCache, pdata, pperiod>>
    /\ UNCHANGED handlerVars

\* two calls of generateSignal in a row, nothing run between them
GenerateSignalTwice ==
    /\ pout.fn = "none"
    /\ pout' = [fn |-> "generateSignal",
                first |-> generateSignal(marketDataCache),
                second |-> generateSignal(CacheAfterSignal(marketDataCache))]
    /\ marketDataCache' = CacheAfterSignal(CacheAfterSignal(marketDataCache))
    /\ UNCHANGED <<pdata, pperiod>>
    /\ UNCHANGED handlerVars

NextPure ==
    \/ ApplySMA
    \/ ApplyEMA
    \/ ApplyRSI
    \/ ApplyBollingerBands
    \/ ApplyDetectPatterns
    \/ GenerateSignalTwice

SpecPure == InitPure /\ [][NextPure]_vars

\* ------------------------------------------------------------------------
\* Properties

SignalCommands == {"/analysis", "/signal"}

\* the requests whose handler holds the Signal generateSignal returned to it
Reported == { r \in Requests : pc[r] = "sending" /\ cmd[r] \in SignalCommands }

\* the Signals to state a property of: the one generateSignal returns in the
\* current cache state, and the ones the handlers hold
Signals == { generateSignal(marketDataCache) } \cup { analysis[r] : r \in Reported }

HasReason(s, text) == \E i \in 1..Len(s.reasons) : s.reasons[i].text = text

\* C1: after a fetchGoldData run that returned true, the cached indicators and
\* patterns are the ones computed from the candle sequence held in the cache.
C1_CacheOverwrittenWholesale ==
    lastRun = "true" =>
        /\ marketDataCache.indicators = Indicators(marketDataCache.prices)
        /\ marketDataCache.patterns = detectPatterns(marketDataCache.prices)

\* C2: after a fetchGoldData run that returned true on n candles, an indicator is
\* present in the cache exactly when n reaches its required history: 12 for ema12,
\* 15 for rsi, 20 for sma20 and bollinger, 50 for sma50.
C2_ComputableIndicatorsFilled ==
    lastRun = "true" =>
        LET n == Len(marketDataCache.prices)
            ind == marketDataCache.indicators
        IN  /\ (ind.ema12 # NULL) <=> (n >= 12)
            /\ (ind.rsi # NULL) <=> (n >= 15)
            /\ (ind.sma20 # NULL) <=> (n >= 20)
            /\ (ind.bollinger # NULL) <=> (n >= 20)
            /\ (ind.sma50 # NULL) <=> (n >= 50)

\* C3: when the cached batch has at least 20 candles and its oscillator is 0,
\* generateSignal returns STRONG_BUY with confidence at least 40.
C3_ZeroOscillatorStrongBuy ==
    LET rsi == calculateRSI(marketDataCache.prices, 14)
    IN  (Len(marketDataCache.prices) >= 20 /\ rsi # NULL /\ rsi.num = 0) =>
            /\ generateSignal(marketDataCache).signal = "STRONG_BUY"
            /\ generateSignal(marketDataCache).confidence >= 40

\* C4: the price, indicators and patterns of the Signal a request reports are
\* derived from the candle sequence that request itself fetched.
C4_OwnSnapshot ==
    \A r \in Reported :
        analysis[r].signal # "NO_DATA" =>
            LET own == SliceLast(formattedData[r].data, 100)
            IN  /\ formattedData[r].ok
                /\ Len(own) > 0
                /\ analysis[r].price = own[Len(own)].close
                /\ analysis[r].indicators = Indicators(own)
                /\ analysis[r].patterns = SliceFirst(detectPatterns(own), 3)

\* C5: the confidence of every Signal is between 0 and 95.
C5_ConfidenceWithinBounds ==
    \A s \in Signals : s.confidence >= 0 /\ s.confidence <= 95

C5_Witness ==
    \E r \in Reported : analysis[r].signal # "NO_DATA" /\ analysis[r].confidence = 55

\* the classification the oscillator alone gives, first match winning
ByOscillator(rsi) ==
    IF rsi.num < 25 * rsi.den THEN "STRONG_BUY"
    ELSE IF rsi.num < 35 * rsi.den THEN "BUY"
    ELSE IF rsi.num > 75 * rsi.den THEN "STRONG_SELL"
    ELSE IF rsi.num > 65 * rsi.den THEN "SELL"
    ELSE "HOLD"

\* C6: the classification of every Signal other than NO_DATA is the one the
\* oscillator alone gives (< 25 STRONG_BUY, < 35 BUY, > 75 STRONG_SELL, > 65 SELL,
\* else HOLD); the moving-average and band steps leave it as it is.
C6_ClassificationByOscillator ==
    \A s \in Signals :
        s.signal # "NO_DATA" => s.signal = ByOscillator(s.indicators.rsi)

C6_Witness ==
    \E r \in Reported :
        /\ analysis[r].signal = "STRONG_BUY"
        /\ HasReason(analysis[r], "Bullish MA trend")

FarApart(extrema) ==
    /\ Len(extrema) >= 2
    /\ LET a == extrema[Len(extrema) - 1].price
           b == extrema[Len(extrema)].price
       IN  200 * Abs(a - b) >= a + b

HasPattern(patterns, type) == \E i \in 1..Len(patterns) : patterns[i].type = type

\* C8: every pattern detectPatterns returns has confidence 75, and no DOUBLE_TOP
\* (DOUBLE_BOTTOM) is returned when the two most recent local highs (lows) of the
\* last 20 candles differ by 1% or more of their average.
C8_PatternConfidenceAndTolerance ==
    pout.fn = "detectPatterns" =>
        /\ \A i \in 1..Len(pout.value) : pout.value[i].confidence = 75
        /\ FarApart(LocalHighs(SliceLast(pdata, 20))) => ~HasPattern(pout.value, "DOUBLE_TOP")
        /\ FarApart(LocalLows(SliceLast(pdata, 20))) => ~HasPattern(pout.value, "DOUBLE_BOTTOM")

C8_Witness ==
    /\ pout.fn = "detectPatterns"
    /\ FarApart(LocalHighs(SliceLast(pdata, 20)))
    /\ HasPattern(pout.value, "DOUBLE_BOTTOM")

\* C9: on a sequence shorter than the period (shorter than period+1 for the
\* oscillator) each of the four indicator functions returns the absent value.
C9_ShortInputAbsent ==
    /\ (pout.fn \in {"calculateSMA", "calculateEMA", "calculateBollingerBands"}
        /\ Len(pdata) < pperiod) => pout.value = NULL
    /\ (pout.fn = "calculateRSI" /\ Len(pdata) < pperiod + 1) => pout.value = NULL

C9_Witness ==
    /\ pout.fn = "calculateSMA"
    /\ Len(pdata) > 0
    /\ Len(pdata) < pperiod
    /\ pout.value = NULL

\* C10: the moving-average bonus and the band bonus never both apply to one
\* Signal; the confidence is one of 0, 25, 40, 55, and it is 0 exactly for HOLD
\* and NO_DATA.
C10_BonusesExclusive ==
    \A s \in Signals :
        /\ s.confidence \in {0, 25, 40, 55}
        /\ (s.confidence = 0) <=> (s.signal \in {"HOLD", "NO_DATA"})
        /\ s.signal # "NO_DATA" =>
              ~ /\ HasReason(s, "Bullish MA trend") \/ HasReason(s, "Bearish MA trend")
                /\ HasReason(s, "Below lower Bollinger") \/ HasReason(s, "Above upper Bollinger")

C10_Witness ==
    \E r \in Reported :
        /\ analysis[r].signal # "NO_DATA"
        /\ analysis[r].indicators.sma50 # NULL
        /\ analysis[r].indicators.bollinger # NULL
        /\ HasReason(analysis[r], "Below lower Bollinger")
        /\ analysis[r].confidence = 55

====
